---------------------------- MODULE Spec2Model ----------------------------
(***************************************************************************)
(* A model of safe_password.py: the charset builder, the rules validator,  *)
(* the password generator, the strength rules and their ladder, and the    *)
(* generate handler of the widget that ties them together.                 *)
(*                                                                         *)
(* A Python str is a sequence of one-character strings.  ''.join(set(s))   *)
(* yields the distinct characters of s in an order the interpreter picks:  *)
(* every permutation is a possible outcome.  random.sample and             *)
(* random.choice are a choice over every outcome they can produce.         *)
(***************************************************************************)
EXTENDS Integers, Sequences, FiniteSets, TLC

VARIABLES
    included_chars, excluded_chars,   \* CharsetBuilder's two accumulators
    built,                            \* what the last build() returned
    histInc, histExc,                 \* every character ever passed to include_chars / exclude_chars, in call order
    lastOp, builds,                   \* the builder's last call, and the number of build() calls so far (0, 1, 2 = two or more)
    error,                            \* PasswordRulesValidator.error
    v_call,                           \* the last validate_rules call: its arguments and what it returned
    g_call,                           \* a generate_password call: its arguments and its outcome
    r_call,                           \* a rule's is_satisfied call: the rule, the password and the answer
    s_call,                           \* a count_strength call: the password and the score (in hundredths)
    lowercase_check, uppercase_check, digits_check, punctuation_check,
    include_chars_edit, exclude_chars_edit,
    password_length_spinbox, password_unique_check,
    result_password_edit,             \* the displayed password
    strength,                         \* PasswordStrengthWidget.strength, in hundredths
    message_box,                      \* what the last on_generate_password showed in QMessageBox.critical (<<>>: nothing)
    trace                             \* the calls the last on_generate_password made, in order

builderVars == <<included_chars, excluded_chars, built, histInc, histExc, lastOp, builds>>
widgetVars  == <<lowercase_check, uppercase_check, digits_check, punctuation_check,
                 include_chars_edit, exclude_chars_edit, password_length_spinbox,
                 password_unique_check, result_password_edit, strength, message_box, trace>>
vars == <<builderVars, error, v_call, g_call, r_call, s_call, widgetVars>>

----------------------------------------------------------------------------
(* Strings *)

Range(s) == {s[i] : i \in DOMAIN s}

SeqsUpTo(S, n) == UNION {[1..k -> S] : k \in 0..n}

\* Every ordering of the members of S, each once.
Perms(S) == {p \in [1..Cardinality(S) -> S] : Range(p) = S}

\* str.count
Count(s, c) == Cardinality({i \in DOMAIN s : s[i] = c})

NoRepeats(s) == \A i, j \in DOMAIN s : s[i] = s[j] => i = j

\* ''.join(set(s)): the outcomes
JoinSet(s) == Perms(Range(s))

----------------------------------------------------------------------------
(* CharsetBuilder *)

BuilderChars == {"a", "b"}
MaxArg == 2
MaxAcc == 3

\* A build() that forgets the exclusions.
BuildCharsetKeepsExcluded(included, excluded) == included

\* The included characters that are not in excluded, in the order of included.
BuildCharset(included, excluded) ==
    LET Kept(c) == c \notin Range(excluded)
    IN  SelectSeq(included, Kept)

InitBuilder ==
    /\ included_chars = <<>>
    /\ excluded_chars = <<>>
    /\ built = <<>>
    /\ histInc = <<>>
    /\ histExc = <<>>
    /\ lastOp = "init"
    /\ builds = 0

include_chars ==
    \E chars \in SeqsUpTo(BuilderChars, MaxArg) :
        /\ Len(histInc) + Len(chars) <= MaxAcc
        /\ included_chars' = included_chars \o chars
        /\ histInc' = histInc \o chars
        /\ lastOp' = "include_chars"
        /\ UNCHANGED <<excluded_chars, built, histExc, builds>>
        /\ UNCHANGED <<error, v_call, g_call, r_call, s_call, widgetVars>>

exclude_chars ==
    \E chars \in SeqsUpTo(BuilderChars, MaxArg) :
        /\ Len(histExc) + Len(chars) <= MaxAcc
        /\ excluded_chars' = excluded_chars \o chars
        /\ histExc' = histExc \o chars
        /\ lastOp' = "exclude_chars"
        /\ UNCHANGED <<included_chars, built, histInc, builds>>
        /\ UNCHANGED <<error, v_call, g_call, r_call, s_call, widgetVars>>

\* A build() that empties the accumulators once it has resolved them.
buildClears ==
    \E inc \in JoinSet(included_chars), exc \in JoinSet(excluded_chars) :
        /\ included_chars' = <<>>
        /\ excluded_chars' = <<>>
        /\ built' = BuildCharset(inc, exc)
        /\ lastOp' = "build"
        /\ builds' = IF builds = 0 THEN 1 ELSE 2
        /\ UNCHANGED <<histInc, histExc>>
        /\ UNCHANGED <<error, v_call, g_call, r_call, s_call, widgetVars>>

build ==
    \E inc \in JoinSet(included_chars), exc \in JoinSet(excluded_chars) :
        /\ included_chars' = inc
        /\ excluded_chars' = exc
        /\ built' = BuildCharset(inc, exc)
        /\ lastOp' = "build"
        /\ builds' = IF builds = 0 THEN 1 ELSE 2
        /\ UNCHANGED <<histInc, histExc>>
        /\ UNCHANGED <<error, v_call, g_call, r_call, s_call, widgetVars>>


NextBuilder == include_chars \/ exclude_chars \/ build

----------------------------------------------------------------------------
(* PasswordRulesValidator *)

NoError == "None"
EmptyCharset == "A charset is empty."
CharsetTooSmall == "The charset is too short."

\* A validate_rules whose length test is off by one.
ValidateRulesOffByOne(length, unique, charset, err) ==
    IF Len(charset) = 0
    THEN [returned |-> FALSE, error |-> "A charset is empty."]
    ELSE IF unique /\ length >= Len(charset)
         THEN [returned |-> FALSE, error |-> "The charset is too short."]
         ELSE [returned |-> TRUE, error |-> err]

\* What validate_rules returns, and self.error after it (err: self.error before).
ValidateRules(length, unique, charset, err) ==
    IF Len(charset) = 0
    THEN [returned |-> FALSE, error |-> EmptyCharset]
    ELSE IF unique /\ length > Len(charset)
         THEN [returned |-> FALSE, error |-> CharsetTooSmall]
         ELSE [returned |-> TRUE, error |-> err]

ValChars == {"a", "b"}
MaxValCharset == 3
MaxValLength == 4

NoValidate == [called |-> FALSE, length |-> 1, unique |-> FALSE,
               charset |-> <<>>, returned |-> FALSE, before |-> NoError]

validate_rules ==
    \E length \in 1..MaxValLength, unique \in BOOLEAN,
       charset \in SeqsUpTo(ValChars, MaxValCharset) :
        LET v == ValidateRules(length, unique, charset, error)
        IN  /\ error' = v.error
            /\ v_call' = [called |-> TRUE, length |-> length, unique |-> unique,
                          charset |-> charset, returned |-> v.returned, before |-> error]
            /\ UNCHANGED <<builderVars, g_call, r_call, s_call, widgetVars>>

----------------------------------------------------------------------------
(* PasswordGenerator *)

\* A sample that draws with replacement.
SampleWithReplacement(population, k) ==
    IF k > Len(population) \/ k < 0
    THEN {[kind |-> "ValueError", password |-> <<>>]}
    ELSE {[kind |-> "ok", password |-> [i \in 1..k |-> population[f[i]]]] :
            f \in [1..k -> DOMAIN population]}

\* A sample that returns the whole population, shuffled, when asked for more.
SampleClamped(population, k) ==
    LET n == IF k > Len(population) THEN Len(population) ELSE k
    IN  {[kind |-> "ok", password |-> [i \in 1..n |-> population[f[i]]]] :
            f \in {g \in [1..n -> DOMAIN population] :
                     \A i, j \in 1..n : g[i] = g[j] => i = j}}

\* random.sample(population, k): k members of the population at k different
\* positions, in any order; ValueError when k exceeds the population (or is negative).
Sample(population, k) ==
    IF k > Len(population) \/ k < 0
    THEN {[kind |-> "ValueError", password |-> <<>>]}
    ELSE {[kind |-> "ok", password |-> [i \in 1..k |-> population[f[i]]]] :
            f \in {g \in [1..k -> DOMAIN population] :
                     \A i, j \in 1..k : g[i] = g[j] => i = j}}

\* A loop that runs one time too few.
ChoicesOneShort(charset, length) ==
    IF length >= 1 /\ Len(charset) = 0
    THEN {[kind |-> "IndexError", password |-> <<>>]}
    ELSE {[kind |-> "ok", password |-> [i \in 1..(length - 1) |-> charset[f[i]]]] :
            f \in [1..(length - 1) -> DOMAIN charset]}

\* ''.join(random.choice(charset) for i in range(length)): random.choice of an
\* empty sequence raises IndexError; range(length) is empty for length <= 0.
Choices(charset, length) ==
    IF length >= 1 /\ Len(charset) = 0
    THEN {[kind |-> "IndexError", password |-> <<>>]}
    ELSE {[kind |-> "ok", password |-> [i \in 1..length |-> charset[f[i]]]] :
            f \in [1..length -> DOMAIN charset]}

\* The outcomes of generate_password(length, unique_chars, charset).
GeneratePassword(length, unique_chars, charset) ==
    IF unique_chars THEN Sample(charset, length) ELSE Choices(charset, length)

GenChars == {"a", "b", "c"}
MaxGenCharset == 3
MaxGenLength == 4

NoGenerate == [state |-> "none", length |-> 1, unique |-> FALSE,
               charset |-> <<>>, password |-> <<>>]

generate_password ==
    /\ g_call.state = "args"
    /\ \E out \in GeneratePassword(g_call.length, g_call.unique, g_call.charset) :
           g_call' = [g_call EXCEPT !.state = out.kind, !.password = out.password]
    /\ UNCHANGED <<builderVars, error, v_call, r_call, s_call, widgetVars>>

----------------------------------------------------------------------------
(* The strength rules *)

\* The grave accent of string.punctuation (a TLA+ string cannot hold the character itself).
GraveAccent == "U+0060"

\* string.ascii_lowercase, string.ascii_uppercase, string.digits, string.punctuation
ascii_lowercase == <<"a","b","c","d","e","f","g","h","i","j","k","l","m",
                     "n","o","p","q","r","s","t","u","v","w","x","y","z">>
ascii_uppercase == <<"A","B","C","D","E","F","G","H","I","J","K","L","M",
                     "N","O","P","Q","R","S","T","U","V","W","X","Y","Z">>
digits == <<"0","1","2","3","4","5","6","7","8","9">>
punctuation == <<"!","\"","#","$","%","&","'","(",")","*","+",",","-",".","/",":",
                 ";","<","=",">","?","@","[","\\","]","^","_",GraveAccent,"{","|","}","~">>

\* MinimumLengthRule(min_length).is_satisfied(password)
MinimumLengthIsSatisfied(min_length, password) == Len(password) >= min_length

\* A comparison that lets the count equal the length.
PresentTwoOtherCharsLax(password) ==
    \E i \in DOMAIN password : Count(password, password[i]) <= Len(password)

\* PresentTwoOtherCharsRule().is_satisfied(password)
PresentTwoOtherCharsIsSatisfied(password) ==
    \E i \in DOMAIN password : Count(password, password[i]) < Len(password)

\* A rule that counts the password's characters found in a class, not the classes.
PresentCharsubsetsCountsChars(charsubsets, present_charsubsets_min, password) ==
    Cardinality({j \in DOMAIN password :
                    \E i \in DOMAIN charsubsets : password[j] \in Range(charsubsets[i])})
        >= present_charsubsets_min

\* PresentCharsubsetsRule(charsubsets, present_charsubsets_min).is_satisfied(password)
PresentCharsubsetsIsSatisfied(charsubsets, present_charsubsets_min, password) ==
    LET present_charsubsets ==
            [i \in DOMAIN charsubsets |->
                \E j \in DOMAIN password : password[j] \in Range(charsubsets[i])]
    IN  Count(present_charsubsets, TRUE) >= present_charsubsets_min

\* rule.is_satisfied(password), by the rule's class
IsSatisfied(rule, password) ==
    CASE rule.class = "MinimumLengthRule" ->
            MinimumLengthIsSatisfied(rule.min, password)
      [] rule.class = "PresentTwoOtherCharsRule" ->
            PresentTwoOtherCharsIsSatisfied(password)
      [] rule.class = "PresentCharsubsetsRule" ->
            PresentCharsubsetsIsSatisfied(rule.charsubsets, rule.min, password)

MinimumLengthRule(min_length) ==
    [class |-> "MinimumLengthRule", min |-> min_length, charsubsets |-> <<>>]
PresentTwoOtherCharsRule ==
    [class |-> "PresentTwoOtherCharsRule", min |-> 0, charsubsets |-> <<>>]
PresentCharsubsetsRule(charsubsets, present_charsubsets_min) ==
    [class |-> "PresentCharsubsetsRule", min |-> present_charsubsets_min,
     charsubsets |-> charsubsets]

RuleChars == {"a", "b", "A"}
RuleClasses == {<<>>, <<"a">>, <<"a", "b">>, <<"b", "A">>, <<"A">>}
MaxRulePassword == 3
MaxRuleClasses == 2
MaxRuleMin == 3

RuleInputs ==
    {MinimumLengthRule(n) : n \in 0..MaxRuleMin}
    \cup {PresentTwoOtherCharsRule}
    \cup {PresentCharsubsetsRule(cs, n) :
            cs \in SeqsUpTo(RuleClasses, MaxRuleClasses), n \in -1..MaxRuleMin}

NoRule == [state |-> "none", rule |-> PresentTwoOtherCharsRule,
           password |-> <<>>, satisfied |-> FALSE]

is_satisfied ==
    /\ r_call.state = "args"
    /\ r_call' = [r_call EXCEPT !.state = "done",
                                !.satisfied = IsSatisfied(r_call.rule, r_call.password)]
    /\ UNCHANGED <<builderVars, error, v_call, g_call, s_call, widgetVars>>

----------------------------------------------------------------------------
(* PasswordStrengthCounter *)

Weight == 20

charsubsets == <<ascii_lowercase, ascii_uppercase, digits, punctuation>>

\* PasswordStrengthCounter.rules
rules ==
    << [rule |-> MinimumLengthRule(1), weight |-> Weight],
       [rule |-> MinimumLengthRule(8), weight |-> Weight],
       [rule |-> PresentTwoOtherCharsRule, weight |-> Weight],
       [rule |-> PresentCharsubsetsRule(charsubsets, 2), weight |-> Weight],
       [rule |-> PresentCharsubsetsRule(charsubsets, 3), weight |-> Weight] >>

\* A loop without the break: every satisfied rule's weight counts.
RECURSIVE TotalWeightNoBreak(_, _)
TotalWeightNoBreak(i, password) ==
    IF i > Len(rules) THEN 0
    ELSE (IF IsSatisfied(rules[i].rule, password) THEN rules[i].weight ELSE 0)
         + TotalWeightNoBreak(i + 1, password)

\* The loop of count_strength from rule i on: total_weight gained.
RECURSIVE TotalWeightFrom(_, _)
TotalWeightFrom(i, password) ==
    IF i > Len(rules) THEN 0
    ELSE IF IsSatisfied(rules[i].rule, password)
         THEN rules[i].weight + TotalWeightFrom(i + 1, password)
         ELSE 0

\* count_strength(password) is total_weight / 100.0: the score is kept as the
\* fraction's numerator over Hundred.
Hundred == 100
CountStrength(password) == TotalWeightFrom(1, password)

StrengthChars == {"a", "b", "A", "3", "!", " "}
MaxPrefix == 2
MaxPad == 8

\* repeat c, k times
Repeat(c, k) == [i \in 1..k |-> c]

\* Passwords: a free prefix followed by one character repeated, and the worked examples.
StrengthInputs ==
    {p \o Repeat(c, k) : p \in SeqsUpTo(StrengthChars, MaxPrefix),
                         c \in StrengthChars, k \in 0..MaxPad}
    \cup {<<"a","b","c","d","e","f","g","h">>,
          <<"A","b","3","!","d","e","f","g">>}

NoStrength == [state |-> "none", password |-> <<>>, score |-> 0]

count_strength ==
    /\ s_call.state = "args"
    /\ s_call' = [s_call EXCEPT !.state = "done",
                                !.score = CountStrength(s_call.password)]
    /\ UNCHANGED <<builderVars, error, v_call, g_call, r_call, widgetVars>>

----------------------------------------------------------------------------
(* PasswordGeneratorWidget *)

\* QSpinBox.setRange(1, 128)
SpinMin == 1
SpinMax == 128

\* The user's inputs are bounded: the spin box is set to at most MaxSpin, the two
\* line edits hold one of a few texts, and the settings always resolve to a
\* charset of at most MaxWidgetCharset characters.
MaxSpin == 2
MaxWidgetCharset == 3

AllPrintable == ascii_lowercase \o ascii_uppercase \o digits \o punctuation

AllBut(keep) ==
    LET Dropped(c) == c \notin keep
    IN  SelectSeq(AllPrintable, Dropped)

IncludeTexts == {<<>>, <<"a", "!">>}
ExcludeTexts == {<<>>, AllBut({"a", "A", "1"}), AllBut({"a"}), AllPrintable}

\* build_charset up to the build() call: what the builder has been given.
BuilderIncluded(lower, upper, digit, punct, include_text) ==
    (IF lower THEN ascii_lowercase ELSE <<>>)
    \o (IF upper THEN ascii_uppercase ELSE <<>>)
    \o (IF digit THEN digits ELSE <<>>)
    \o (IF punct THEN punctuation ELSE <<>>)
    \o include_text

\* The outcomes of build() on a fresh builder given included and excluded: the
\* included characters that are not excluded, each once, in the order
\* ''.join(set(included)) happens to give them.
BuildOutcomes(included, excluded) == Perms(Range(included) \ Range(excluded))

\* The outcomes of build_charset()
build_charset ==
    BuildOutcomes(BuilderIncluded(lowercase_check, uppercase_check, digits_check,
                                  punctuation_check, include_chars_edit),
                  exclude_chars_edit)

\* The settings resolve to a charset the model can enumerate.
Bounded(lower, upper, digit, punct, include_text, exclude_text) ==
    Cardinality(Range(BuilderIncluded(lower, upper, digit, punct, include_text))
                \ Range(exclude_text)) <= MaxWidgetCharset

InitWidget ==
    /\ lowercase_check = FALSE
    /\ uppercase_check = FALSE
    /\ digits_check = FALSE
    /\ punctuation_check = FALSE
    /\ include_chars_edit = <<>>
    /\ exclude_chars_edit = <<>>
    /\ password_length_spinbox = SpinMin
    /\ password_unique_check = FALSE
    /\ result_password_edit = <<>>
    /\ strength = 0
    /\ message_box = ""
    /\ trace = <<>>

resultVars == <<result_password_edit, strength, message_box, trace>>
otherVars == <<builderVars, v_call, g_call, r_call, s_call>>

\* The user sets the spin box.
set_password_length ==
    \E n \in SpinMin..SpinMax :
        /\ n <= MaxSpin
        /\ password_length_spinbox' = n
        /\ UNCHANGED <<lowercase_check, uppercase_check, digits_check, punctuation_check,
                       include_chars_edit, exclude_chars_edit, password_unique_check,
                       resultVars, error, otherVars>>

\* The user ticks or unticks "Don't repeat chars".
toggle_unique ==
    /\ password_unique_check' = ~password_unique_check
    /\ UNCHANGED <<lowercase_check, uppercase_check, digits_check, punctuation_check,
                   include_chars_edit, exclude_chars_edit, password_length_spinbox,
                   resultVars, error, otherVars>>

\* The user ticks or unticks one of the four class check boxes.
toggle_class ==
    \E lower, upper, digit, punct \in BOOLEAN :
        /\ Cardinality({i \in 1..4 :
                <<lower, upper, digit, punct>>[i] #
                <<lowercase_check, uppercase_check, digits_check, punctuation_check>>[i]}) = 1
        /\ Bounded(lower, upper, digit, punct, include_chars_edit, exclude_chars_edit)
        /\ lowercase_check' = lower
        /\ uppercase_check' = upper
        /\ digits_check' = digit
        /\ punctuation_check' = punct
        /\ UNCHANGED <<include_chars_edit, exclude_chars_edit, password_length_spinbox,
                       password_unique_check, resultVars, error, otherVars>>

\* The user edits "Include custom chars".
edit_include_chars ==
    \E text \in IncludeTexts :
        /\ Bounded(lowercase_check, uppercase_check, digits_check, punctuation_check,
                   text, exclude_chars_edit)
        /\ include_chars_edit' = text
        /\ UNCHANGED <<lowercase_check, uppercase_check, digits_check, punctuation_check,
                       exclude_chars_edit, password_length_spinbox, password_unique_check,
                       resultVars, error, otherVars>>

\* The user edits "Exclude custom chars".
edit_exclude_chars ==
    \E text \in ExcludeTexts :
        /\ Bounded(lowercase_check, uppercase_check, digits_check, punctuation_check,
                   include_chars_edit, text)
        /\ exclude_chars_edit' = text
        /\ UNCHANGED <<lowercase_check, uppercase_check, digits_check, punctuation_check,
                       include_chars_edit, password_length_spinbox, password_unique_check,
                       resultVars, error, otherVars>>

\* A handler that generates whatever validate_rules returned.
GenerateOutcomesUnchecked(length, unique, charset, err, shown_password, shown_strength) ==
    LET v == ValidateRules(length, unique, charset, err)
    IN  {IF out.kind = "ok"
         THEN [error |-> v.error, password |-> out.password,
               strength |-> CountStrength(out.password), message |-> "",
               trace |-> <<"validate_rules", "generate_password", "count_strength">>]
         ELSE [error |-> v.error, password |-> shown_password,
               strength |-> shown_strength, message |-> "",
               trace |-> <<"validate_rules", "generate_password", out.kind>>] :
         out \in GeneratePassword(length, unique, charset)}

\* What one run of on_generate_password leaves behind, for the charset that
\* build_charset() returned: the validator's error, the two displays, the
\* message box and the calls made.  An exception of generate_password leaves
\* the slot there.
GenerateOutcomes(length, unique, charset, err, shown_password, shown_strength) ==
    LET v == ValidateRules(length, unique, charset, err)
    IN  IF v.returned
        THEN {IF out.kind = "ok"
              THEN [error |-> v.error, password |-> out.password,
                    strength |-> CountStrength(out.password), message |-> "",
                    trace |-> <<"validate_rules", "generate_password", "count_strength">>]
              ELSE [error |-> v.error, password |-> shown_password,
                    strength |-> shown_strength, message |-> "",
                    trace |-> <<"validate_rules", "generate_password", out.kind>>] :
              out \in GeneratePassword(length, unique, charset)}
        ELSE {[error |-> v.error, password |-> shown_password,
               strength |-> shown_strength, message |-> v.error,
               trace |-> <<"validate_rules">>]}

on_generate_password ==
    \E o \in UNION {GenerateOutcomes(password_length_spinbox, password_unique_check,
                                     charset, error, result_password_edit, strength) :
                    charset \in build_charset} :
        /\ error' = o.error
        /\ result_password_edit' = o.password
        /\ strength' = o.strength
        /\ message_box' = o.message
        /\ trace' = o.trace
        /\ UNCHANGED <<lowercase_check, uppercase_check, digits_check, punctuation_check,
                       include_chars_edit, exclude_chars_edit, password_length_spinbox,
                       password_unique_check, otherVars>>

----------------------------------------------------------------------------
(* The specifications *)

NoCalls ==
    /\ v_call = NoValidate
    /\ g_call = NoGenerate
    /\ r_call = NoRule
    /\ s_call = NoStrength

\* The program after construction.
Init == InitBuilder /\ error = NoError /\ NoCalls /\ InitWidget

Next ==
    \/ set_password_length
    \/ toggle_unique
    \/ toggle_class
    \/ edit_include_chars
    \/ edit_exclude_chars
    \/ on_generate_password

Spec == Init /\ [][Next]_vars

\* A CharsetBuilder on its own.
SpecBuilder == Init /\ [][NextBuilder]_vars

\* A PasswordRulesValidator on its own, called again and again.
SpecValidate == Init /\ [][validate_rules]_vars

\* One generate_password call, for every argument within the bounds.
InitGenerate ==
    /\ InitBuilder /\ error = NoError /\ InitWidget
    /\ v_call = NoValidate
    /\ r_call = NoRule
    /\ s_call = NoStrength
    /\ g_call \in [state : {"args"}, length : 1..MaxGenLength, unique : BOOLEAN,
                   charset : SeqsUpTo(GenChars, MaxGenCharset), password : {<<>>}]

SpecGenerate == InitGenerate /\ [][generate_password]_vars

\* One is_satisfied call, for every rule and password within the bounds.
InitRules ==
    /\ InitBuilder /\ error = NoError /\ InitWidget
    /\ v_call = NoValidate
    /\ g_call = NoGenerate
    /\ s_call = NoStrength
    /\ r_call \in [state : {"args"}, rule : RuleInputs,
                   password : SeqsUpTo(RuleChars, MaxRulePassword), satisfied : {FALSE}]

SpecRules == InitRules /\ [][is_satisfied]_vars

\* One count_strength call, for every password of StrengthInputs.
InitStrength ==
    /\ InitBuilder /\ error = NoError /\ InitWidget
    /\ v_call = NoValidate
    /\ g_call = NoGenerate
    /\ r_call = NoRule
    /\ s_call \in [state : {"args"}, password : StrengthInputs, score : {0}]

SpecStrength == InitStrength /\ [][count_strength]_vars

----------------------------------------------------------------------------
(* The properties *)

\* The builder's operators agree: on a fresh builder that was given inc and exc,
\* build() returns exactly the orderings of set(inc) - set(exc).
FreshBuilds(inc, exc) ==
    {BuildCharset(i, e) : i \in JoinSet(inc), e \in JoinSet(exc)}

BuildOutcomesAgree ==
    FreshBuilds(histInc, histExc) = BuildOutcomes(histInc, histExc)

\* C1: validate_rules has exactly one of three outcomes for a charset without
\* duplicates: the empty-charset reason when the charset has no character,
\* whatever length and unique are; the charset-too-small reason when the charset
\* is not empty, unique is true and length exceeds its size; success otherwise.
C1_ValidateOutcomes ==
    (v_call.called /\ NoRepeats(v_call.charset)) =>
        LET size == Cardinality(Range(v_call.charset))
            tooSmall == v_call.unique /\ v_call.length > size
        IN  /\ size = 0 => (~v_call.returned /\ error = EmptyCharset)
            /\ (size > 0 /\ tooSmall) => (~v_call.returned /\ error = CharsetTooSmall)
            /\ (size > 0 /\ ~tooSmall) => v_call.returned

\* A validator that reported an empty charset is called again, in unique mode,
\* with more characters asked for than a non-empty charset holds.
C1_Witness ==
    /\ v_call.called
    /\ v_call.before = EmptyCharset
    /\ v_call.unique
    /\ NoRepeats(v_call.charset)
    /\ Len(v_call.charset) = 2
    /\ v_call.length = 3
    /\ ~v_call.returned
    /\ error = CharsetTooSmall

\* C2: after any include_chars and exclude_chars calls, build() returns a string
\* with no character twice, none of the excluded characters and every included
\* character that was never excluded: its characters are set(included) minus
\* set(excluded).
C2_BuildIsDifference ==
    lastOp = "build" =>
        /\ NoRepeats(built)
        /\ Range(built) \cap Range(histExc) = {}
        /\ Range(histInc) \ Range(histExc) \subseteq Range(built)
        /\ Range(built) = Range(histInc) \ Range(histExc)

\* include_chars("ab"), exclude_chars("b"), build() = "a"; here "ab" came with a
\* duplicate.
C2_Witness ==
    /\ lastOp = "build"
    /\ Range(histInc) = {"a", "b"}
    /\ Len(histInc) = 3
    /\ histExc = <<"b">>
    /\ built = <<"a">>

\* C3: build() is idempotent and clears nothing: a build() right after a build()
\* returns the same set of characters, and every build() returns the set a
\* fresh builder would return after the same include_chars and exclude_chars
\* calls, whatever builds came before.
C3_BuildIdempotent ==
    [][lastOp' = "build" =>
          /\ \A r \in FreshBuilds(histInc', histExc') : Range(r) = Range(built')
          /\ lastOp = "build" => Range(built') = Range(built)]_vars

\* A second or later build(), after the accumulators were normalised by an
\* earlier one and with something left to return.
C3_Witness ==
    /\ lastOp = "build"
    /\ builds = 2
    /\ Len(included_chars) < Len(histInc)
    /\ Len(histInc) = MaxAcc
    /\ built # <<>>

\* C4: with a charset without duplicates and 1 <= length <= size(charset), the
\* unique mode returns exactly length characters, all of the charset, none twice.
C4_UniqueGenerate ==
    (/\ g_call.state # "args"
     /\ g_call.unique
     /\ NoRepeats(g_call.charset)
     /\ g_call.length >= 1
     /\ g_call.length <= Cardinality(Range(g_call.charset))) =>
        /\ g_call.state = "ok"
        /\ Len(g_call.password) = g_call.length
        /\ Range(g_call.password) \subseteq Range(g_call.charset)
        /\ NoRepeats(g_call.password)

\* Unique mode used the whole of a three-character charset, in another order.
C4_Witness ==
    /\ g_call.state = "ok"
    /\ g_call.unique
    /\ NoRepeats(g_call.charset)
    /\ g_call.length = 3
    /\ Len(g_call.charset) = 3
    /\ g_call.password # g_call.charset

\* C5: with a non-empty charset and length >= 1, also beyond the charset's size,
\* the repeating mode returns exactly length characters, all of the charset.
C5_RepeatingGenerate ==
    (/\ g_call.state # "args"
     /\ ~g_call.unique
     /\ Len(g_call.charset) >= 1
     /\ g_call.length >= 1) =>
        /\ g_call.state = "ok"
        /\ Len(g_call.password) = g_call.length
        /\ Range(g_call.password) \subseteq Range(g_call.charset)

\* The repeating mode returned more characters than the charset holds, one of
\* them at least twice.
C5_Witness ==
    /\ g_call.state = "ok"
    /\ ~g_call.unique
    /\ NoRepeats(g_call.charset)
    /\ g_call.length > Len(g_call.charset)
    /\ Len(g_call.password) = g_call.length
    /\ Cardinality(Range(g_call.password)) = 2

\* The classes of the ladder with a character in the password.
ClassesPresent(password) ==
    Cardinality({k \in 1..4 :
        Range(password) \cap Range(<<ascii_lowercase, ascii_uppercase, digits, punctuation>>[k]) # {}})

\* Whether the password clears step n of the ladder, taken alone.
Clears(n, password) ==
    CASE n = 1 -> Len(password) >= 1
      [] n = 2 -> Len(password) >= 8
      [] n = 3 -> Cardinality(Range(password)) >= 2
      [] n = 4 -> ClassesPresent(password) >= 2
      [] n = 5 -> ClassesPresent(password) >= 3

\* The length of the longest prefix of the ladder the password clears.
LongestPrefix(password) ==
    CHOOSE n \in 0..5 :
        /\ \A k \in 1..n : Clears(k, password)
        /\ n < 5 => ~Clears(n + 1, password)

\* C6: count_strength is 20 times the length of the longest satisfied prefix of
\* the ladder, over 100: nothing after the first unsatisfied rule counts; the
\* score is one of 0.0, 0.2, 0.4, 0.6, 0.8, 1.0; a one-character password scores
\* 0.2, "abcdefgh" 0.6 and "Ab3!defg" 1.0.
C6_LadderScore ==
    s_call.state = "done" =>
        /\ s_call.score * 100 = 20 * LongestPrefix(s_call.password) * Hundred
        /\ s_call.score * 100 \in {0 * Hundred, 20 * Hundred, 40 * Hundred,
                                   60 * Hundred, 80 * Hundred, 100 * Hundred}
        /\ Len(s_call.password) = 1 => s_call.score * 100 = 20 * Hundred
        /\ s_call.password = <<"a","b","c","d","e","f","g","h">>
              => s_call.score * 100 = 60 * Hundred
        /\ s_call.password = <<"A","b","3","!","d","e","f","g">>
              => s_call.score * 100 = 100 * Hundred

\* A seven-character password with three classes and two different characters
\* stops at the second rule: it scores 0.2 although rules 3, 4 and 5 hold of it.
C6_Witness ==
    /\ s_call.state = "done"
    /\ Len(s_call.password) = 7
    /\ Clears(3, s_call.password)
    /\ Clears(4, s_call.password)
    /\ Clears(5, s_call.password)
    /\ s_call.score = 20

\* C7: generate_password called on its own in unique mode with length beyond the
\* size of a charset without duplicates fails with an error the caller receives
\* (random.sample's ValueError): no password is returned.
C7_UniqueTooLongFails ==
    (/\ g_call.state # "args"
     /\ g_call.unique
     /\ NoRepeats(g_call.charset)
     /\ g_call.length > Cardinality(Range(g_call.charset))) =>
        /\ g_call.state = "ValueError"
        /\ g_call.password = <<>>

\* Unique mode was asked for one character more than a two-character charset has.
C7_Witness ==
    /\ g_call.state = "ValueError"
    /\ g_call.unique
    /\ NoRepeats(g_call.charset)
    /\ Len(g_call.charset) = 2
    /\ g_call.length = 3

\* C8: PresentTwoOtherCharsRule is satisfied exactly by the passwords with at
\* least two different characters: never by the empty password, a password of
\* length 1 or one character repeated.
C8_TwoDifferentChars ==
    (r_call.state = "done" /\ r_call.rule.class = "PresentTwoOtherCharsRule") =>
        /\ r_call.satisfied <=> Cardinality(Range(r_call.password)) >= 2
        /\ Len(r_call.password) <= 1 => ~r_call.satisfied
        /\ Cardinality(Range(r_call.password)) = 1 => ~r_call.satisfied

\* One character repeated three times does not satisfy the rule.
C8_Witness ==
    /\ r_call.state = "done"
    /\ r_call.rule.class = "PresentTwoOtherCharsRule"
    /\ Len(r_call.password) = 3
    /\ Cardinality(Range(r_call.password)) = 1
    /\ ~r_call.satisfied

\* C9: PresentCharsubsetsRule is satisfied exactly when the classes of its list
\* that hold a character of the password number at least min_present: a class
\* counts once, a character of no class counts for nothing.
C9_ClassesCounted ==
    (r_call.state = "done" /\ r_call.rule.class = "PresentCharsubsetsRule") =>
        (r_call.satisfied <=>
            Cardinality({i \in DOMAIN r_call.rule.charsubsets :
                Range(r_call.rule.charsubsets[i]) \cap Range(r_call.password) # {}})
                >= r_call.rule.min)

\* Two characters of the first class and one of no class, none of the second
\* class: one class is present, and two were asked for.
C9_Witness ==
    /\ r_call.state = "done"
    /\ r_call.rule.class = "PresentCharsubsetsRule"
    /\ r_call.rule.charsubsets = << <<"a", "b">>, <<>> >>
    /\ r_call.rule.min = 2
    /\ Range(r_call.password) = {"a", "b", "A"}
    /\ ~r_call.satisfied

\* The characters the widget's settings resolve to.
Resolved ==
    ((IF lowercase_check THEN Range(ascii_lowercase) ELSE {})
     \cup (IF uppercase_check THEN Range(ascii_uppercase) ELSE {})
     \cup (IF digits_check THEN Range(digits) ELSE {})
     \cup (IF punctuation_check THEN Range(punctuation) ELSE {})
     \cup Range(include_chars_edit))
    \ Range(exclude_chars_edit)

\* The request of the settings cannot be met.
Unsatisfiable ==
    \/ Resolved = {}
    \/ password_unique_check /\ password_length_spinbox > Cardinality(Resolved)

\* C10: in every run of on_generate_password, the generator and the strength
\* counter run only after validate_rules accepted that request, and the
\* generator then returns a password; when the request cannot be met nothing
\* is generated, the displayed password and strength stay as they were, and
\* the message shown is the reason that validation just set.
C10_GenerateGuarded ==
    [][UNCHANGED <<lowercase_check, uppercase_check, digits_check, punctuation_check,
                   include_chars_edit, exclude_chars_edit, password_length_spinbox,
                   password_unique_check>> =>
          /\ Unsatisfiable =>
                /\ trace' = <<"validate_rules">>
                /\ result_password_edit' = result_password_edit
                /\ strength' = strength
                /\ error' = (IF Resolved = {} THEN EmptyCharset ELSE CharsetTooSmall)
                /\ message_box' = error'
          /\ ~Unsatisfiable =>
                /\ trace' = <<"validate_rules", "generate_password", "count_strength">>
                /\ Len(result_password_edit') = password_length_spinbox
                /\ Range(result_password_edit') \subseteq Resolved
                /\ message_box' = ""]_vars

\* A request that cannot be met came after one that was: the too-small reason is
\* shown and the earlier password and strength are still displayed.
C10_Witness ==
    /\ trace = <<"validate_rules">>
    /\ message_box = CharsetTooSmall
    /\ error = CharsetTooSmall
    /\ password_unique_check
    /\ password_length_spinbox > Cardinality(Resolved)
    /\ result_password_edit # <<>>
    /\ strength = 20

=============================================================================
